---- MODULE Spec2Model ----
(***************************************************************************)
(* Fleet lifecycle service: the vehicle / trip / maintenance / booking     *)
(* tables of DatabaseStorage (storage.ts) and the Express routes           *)
(* (routes.ts) that are its only callers.  One action per route; every     *)
(* storage method is an operator from a database value to a database value *)
(* and an outcome, composed exactly as the method composes its store       *)
(* calls.                                                                  *)
(***************************************************************************)
EXTENDS Integers, Sequences, FiniteSets, TLC

\* ------------------------------------------------------------------ bounds
NumVehicles == 1      \* vehicle ids ever assigned
MaxTrips == 1         \* trip ids ever assigned
MaxMaintenance == 1   \* maintenance ids ever assigned
MaxBookings == 1      \* booking ids ever assigned
MaxOdo == 2           \* odometer readings and mileages range over 0..MaxOdo
MaxTime == 2          \* timestamps range over 1..MaxTime
NumClients == 2       \* requests served concurrently
MaxUsers == 2         \* users created through POST /api/users

\* -------------------------------------------------------------- the schema
\* SQL NULL / JS null of a nullable integer or timestamp column.
Null == -1

VehicleStatus == {"available", "maintenance", "in_use", "out_of_service"}
TripStatus == {"planned", "in_progress", "completed", "cancelled"}
MaintenanceStatus == {"pending", "in_progress", "completed"}
BookingStatus == {"pending", "approved", "declined", "cancelled", "completed"}
Roles == {"admin", "moderator"}

\* A request body the zod schema rejects (a missing required field, a value
\* outside an enum, a string that is no date).
Malformed == [malformed |-> TRUE]

\* req.user of a request without a session.
Anonymous == [id |-> 0, role |-> "none"]

VARIABLES
  users,        \* users table: id -> [username, role]
  vehicles,     \* vehicles table: id -> [status, mileage]
  trips,        \* trips table: id -> row
  maintenance,  \* maintenance table: id -> row
  bookings,     \* bookings table: id -> row
  nextId,       \* the serial sequences: table name -> next id
  last,         \* the last request served: [op, code]
  calls,        \* storage calls in flight: client -> [op, pc, vehicleId, id, seen, wrote]
  initialized,            \* DatabaseStorage.initialized
  initializationPromise   \* [state: pending | fulfilled | rejected, at: the await reached]

vars == <<users, vehicles, trips, maintenance, bookings, nextId, last, calls,
          initialized, initializationPromise>>

\* The database as one value, as a storage method sees it.
DB == [users |-> users, vehicles |-> vehicles, trips |-> trips,
       maintenance |-> maintenance, bookings |-> bookings, nextId |-> nextId]

\* A storage call that runs to its end before any other request is served
\* leaves the database d and no call in flight.
Commit(d) ==
  /\ calls' = calls
  /\ UNCHANGED <<initialized, initializationPromise>>
  /\ users' = d.users
  /\ vehicles' = d.vehicles
  /\ trips' = d.trips
  /\ maintenance' = d.maintenance
  /\ bookings' = d.bookings
  /\ nextId' = d.nextId

Respond(op, code) == last' = [op |-> op, code |-> code]

\* ------------------------------------------------------------- JS helpers
\* data.f of a (partial) object: undefined when the key is absent.
Has(data, f) == f \in DOMAIN data
Get(data, f, dflt) == IF f \in DOMAIN data THEN data[f] ELSE dflt

\* JS truthiness of an optional number / timestamp: undefined, null and 0
\* are falsy.
Truthy(data, f) == Has(data, f) /\ data[f] # Null /\ data[f] # 0

\* { ...row, ...patch } restricted to the row's columns (UPDATE ... SET patch).
Merge(row, patch) == [f \in DOMAIN row |-> IF f \in DOMAIN patch THEN patch[f] ELSE row[f]]

\* f with key k bound to v / with key k removed.
Put(f, k, v) == [x \in DOMAIN f \cup {k} |-> IF x = k THEN v ELSE f[x]]
Drop(f, k) == [x \in DOMAIN f \ {k} |-> f[x]]

Max(a, b) == IF a >= b THEN a ELSE b

\* Outcome of a storage method: the database it leaves, whether it threw
\* (and what), and whether it returned a row.
Ok(d) == [db |-> d, threw |-> "", found |-> TRUE]
NotFound(d) == [db |-> d, threw |-> "", found |-> FALSE]
Threw(d, msg) == [db |-> d, threw |-> msg, found |-> FALSE]

\* A transaction that keeps the writes made before the callback threw.
Transaction_NoRollback(d, body) == body

\* db.transaction(async (tx) => ...): the callback's writes are committed
\* when it returns and rolled back when it throws.
Transaction(d, body) == IF body.threw # "" THEN Threw(d, body.threw) ELSE body

\* ---------------------------------------------------------------- vehicles
\* DatabaseStorage.createVehicle: status and mileage take the column
\* defaults when the body leaves them out.
createVehicle(d, data, fail) ==
  IF fail = 1 THEN Threw(d, "StorageError")
  ELSE LET id == d.nextId.vehicles
           row == [status |-> Get(data, "status", "available"),
                   mileage |-> Get(data, "mileage", 0)]
       IN Ok([d EXCEPT !.vehicles = Put(@, id, row), !.nextId.vehicles = id + 1])

\* checkRole that lets a request without a session pass.
checkRole_NoSessionCheck(req, roles) ==
  IF req = Anonymous THEN 0
  ELSE IF req.role \notin roles THEN 403
  ELSE 0

\* checkRole(roles) middleware: 0 when the request may pass.
checkRole(req, roles) ==
  IF req = Anonymous THEN 401
  ELSE IF req.role \notin roles THEN 403
  ELSE 0

adminOnly(req) == checkRole(req, {"admin"})
adminModOnly(req) == checkRole(req, {"admin", "moderator"})

\* POST /api/vehicles
PostVehicles(req, body, fail) ==
  /\ nextId.vehicles <= 2 * NumVehicles
  /\ IF adminModOnly(req) # 0
       THEN Respond("POST /api/vehicles", adminModOnly(req)) /\ Commit(DB)
     ELSE IF body = Malformed
       THEN Respond("POST /api/vehicles", 400) /\ Commit(DB)
     ELSE LET r == createVehicle(DB, body, fail)
          IN /\ Commit(r.db)
             /\ Respond("POST /api/vehicles", IF r.threw # "" THEN 500 ELSE 201)

\* DatabaseStorage.updateVehicle: UPDATE vehicles SET vehicleData WHERE id.
updateVehicle(d, id, vehicleData, fail) ==
  IF fail = 1 THEN Threw(d, "StorageError")
  ELSE IF id \notin DOMAIN d.vehicles THEN NotFound(d)
  ELSE Ok([d EXCEPT !.vehicles[id] = Merge(@, vehicleData)])

\* Rows of the three child tables that reference vehicle id
\* (vehicle_id ... references vehicles.id).
listTripsForVehicle(d, id) == {t \in DOMAIN d.trips : d.trips[t].vehicleId = id}
listMaintenanceForVehicle(d, id) == {m \in DOMAIN d.maintenance : d.maintenance[m].vehicleId = id}
listBookingsForVehicle(d, id) == {b \in DOMAIN d.bookings : d.bookings[b].vehicleId = id}

deleteVehicle_NoForeignKey(d, id) ==
  IF id \notin DOMAIN d.vehicles THEN NotFound(d)
  ELSE Ok([d EXCEPT !.vehicles = Drop(@, id)])

\* DatabaseStorage.deleteVehicle: DELETE FROM vehicles WHERE id; the store
\* refuses the delete while a child row references the vehicle.
deleteVehicle(d, id) ==
  IF id \notin DOMAIN d.vehicles THEN NotFound(d)
  ELSE IF listTripsForVehicle(d, id) \cup listMaintenanceForVehicle(d, id)
            \cup listBookingsForVehicle(d, id) # {}
    THEN Threw(d, "ForeignKeyViolation")
  ELSE Ok([d EXCEPT !.vehicles = Drop(@, id)])

\* PUT /api/vehicles/:id (the administrative override of status / mileage)
PutVehicles(req, id, body, fail) ==
  IF adminModOnly(req) # 0
    THEN Respond("PUT /api/vehicles/:id", adminModOnly(req)) /\ Commit(DB)
  ELSE IF body = Malformed
    THEN Respond("PUT /api/vehicles/:id", 400) /\ Commit(DB)
  ELSE LET r == updateVehicle(DB, id, body, fail)
       IN /\ Commit(r.db)
          /\ Respond("PUT /api/vehicles/:id",
                     IF r.threw # "" THEN 500 ELSE IF ~r.found THEN 404 ELSE 200)

\* DELETE /api/vehicles/:id without the check of the bookings.
DeleteVehicles_NoBookingCheck(req, id) ==
  IF adminOnly(req) # 0
    THEN Respond("DELETE /api/vehicles/:id", adminOnly(req)) /\ Commit(DB)
  ELSE IF listMaintenanceForVehicle(DB, id) # {}
    THEN Respond("DELETE /api/vehicles/:id", 400) /\ Commit(DB)
  ELSE IF listTripsForVehicle(DB, id) # {}
    THEN Respond("DELETE /api/vehicles/:id", 400) /\ Commit(DB)
  ELSE LET r == deleteVehicle(DB, id)
       IN /\ Commit(r.db)
          /\ Respond("DELETE /api/vehicles/:id",
                     IF r.threw # "" THEN 500 ELSE IF ~r.found THEN 404 ELSE 200)

\* DELETE /api/vehicles/:id
DeleteVehicles(req, id) ==
  IF adminOnly(req) # 0
    THEN Respond("DELETE /api/vehicles/:id", adminOnly(req)) /\ Commit(DB)
  ELSE IF listMaintenanceForVehicle(DB, id) # {}
    THEN Respond("DELETE /api/vehicles/:id", 400) /\ Commit(DB)
  ELSE IF listTripsForVehicle(DB, id) # {}
    THEN Respond("DELETE /api/vehicles/:id", 400) /\ Commit(DB)
  ELSE IF listBookingsForVehicle(DB, id) # {}
    THEN Respond("DELETE /api/vehicles/:id", 400) /\ Commit(DB)
  ELSE LET r == deleteVehicle(DB, id)
       IN /\ Commit(r.db)
          /\ Respond("DELETE /api/vehicles/:id",
                     IF r.threw # "" THEN 500 ELSE IF ~r.found THEN 404 ELSE 200)

\* ------------------------------------------------------------------- trips
\* INSERT INTO trips: the row the store keeps, nullable columns NULL and
\* status 'planned' when the data leaves them out.
TripRow(data) ==
  [vehicleId |-> data.vehicleId, driverId |-> data.driverId,
   startTime |-> data.startTime, endTime |-> Get(data, "endTime", Null),
   startOdometer |-> data.startOdometer,
   endOdometer |-> Get(data, "endOdometer", Null),
   status |-> Get(data, "status", "planned")]

\* The foreign keys of a trip row or patch hold in d.
TripRefsOk(d, data) ==
  /\ Has(data, "vehicleId") => data.vehicleId \in DOMAIN d.vehicles
  /\ Has(data, "driverId") => data.driverId \in DOMAIN d.users

\* createTripTx without its vehicle update.
createTripTx_InsertOnly(d, processedData, fail) ==
  IF fail = 1 THEN Threw(d, "StorageError")
  ELSE IF ~TripRefsOk(d, processedData) THEN Threw(d, "ForeignKeyViolation")
  ELSE Ok([d EXCEPT !.trips = Put(@, d.nextId.trips, TripRow(processedData)),
                    !.nextId.trips = d.nextId.trips + 1])

\* The callback of createTrip's transaction: insert the trip, then, for an
\* in_progress trip, move an available vehicle to in_use.
createTripTx(d, processedData, fail) ==
  IF fail = 1 THEN Threw(d, "StorageError")
  ELSE IF ~TripRefsOk(d, processedData) THEN Threw(d, "ForeignKeyViolation")
  ELSE
    LET id == d.nextId.trips
        d1 == [d EXCEPT !.trips = Put(@, id, TripRow(processedData)),
                        !.nextId.trips = id + 1]
        v == processedData.vehicleId
    IN IF Get(processedData, "status", "") = "in_progress"
         THEN IF v \in DOMAIN d1.vehicles /\ d1.vehicles[v].status = "available"
                THEN IF fail = 2 THEN Threw(d1, "StorageError")
                     ELSE Ok([d1 EXCEPT !.vehicles[v].status = "in_use"])
              ELSE Ok(d1)
       ELSE Ok(d1)

\* DatabaseStorage.createTrip
createTrip(d, tripData, fail) == Transaction(d, createTripTx(d, tripData, fail))

\* updateTripTx that releases the vehicle of a completed trip whatever the
\* vehicle's status.
updateTripTx_ReleasesAnyStatus(d, id, processedData, fail) ==
  IF fail = 1 THEN Threw(d, "StorageError")
  ELSE IF id \notin DOMAIN d.trips THEN NotFound(d)
  ELSE IF ~TripRefsOk(d, processedData) THEN Threw(d, "ForeignKeyViolation")
  ELSE
    LET d1 == [d EXCEPT !.trips[id] = Merge(@, processedData)]
        v == d1.trips[id].vehicleId
    IN IF Get(processedData, "status", "") = "completed" /\ Truthy(processedData, "endTime")
         THEN IF v \in DOMAIN d1.vehicles
                THEN LET newMileage == IF Truthy(processedData, "endOdometer")
                                         THEN processedData.endOdometer
                                         ELSE d1.vehicles[v].mileage
                     IN IF fail = 2 THEN Threw(d1, "StorageError")
                        ELSE Ok([d1 EXCEPT !.vehicles[v] =
                                   [status |-> "available", mileage |-> newMileage]])
              ELSE Ok(d1)
       ELSE Ok(d1)

\* updateTripTx that also releases the vehicle when the trip is cancelled.
updateTripTx_ReleasesOnCancel(d, id, processedData, fail) ==
  IF fail = 1 THEN Threw(d, "StorageError")
  ELSE IF id \notin DOMAIN d.trips THEN NotFound(d)
  ELSE IF ~TripRefsOk(d, processedData) THEN Threw(d, "ForeignKeyViolation")
  ELSE
    LET d1 == [d EXCEPT !.trips[id] = Merge(@, processedData)]
        v == d1.trips[id].vehicleId
    IN IF \/ Get(processedData, "status", "") = "completed" /\ Truthy(processedData, "endTime")
          \/ Get(processedData, "status", "") = "cancelled"
         THEN IF v \in DOMAIN d1.vehicles /\ d1.vehicles[v].status = "in_use"
                THEN LET newMileage == IF Truthy(processedData, "endOdometer")
                                         THEN processedData.endOdometer
                                         ELSE d1.vehicles[v].mileage
                     IN IF fail = 2 THEN Threw(d1, "StorageError")
                        ELSE Ok([d1 EXCEPT !.vehicles[v] =
                                   [status |-> "available", mileage |-> newMileage]])
              ELSE Ok(d1)
       ELSE Ok(d1)

\* The callback of updateTrip's transaction: update the trip row, then, when
\* the data completes the trip (status completed and an endTime), move an
\* in_use vehicle to available and set its mileage.
updateTripTx(d, id, processedData, fail) ==
  IF fail = 1 THEN Threw(d, "StorageError")
  ELSE IF id \notin DOMAIN d.trips THEN NotFound(d)
  ELSE IF ~TripRefsOk(d, processedData) THEN Threw(d, "ForeignKeyViolation")
  ELSE
    LET d1 == [d EXCEPT !.trips[id] = Merge(@, processedData)]
        v == d1.trips[id].vehicleId
    IN IF Get(processedData, "status", "") = "completed" /\ Truthy(processedData, "endTime")
         THEN IF v \in DOMAIN d1.vehicles /\ d1.vehicles[v].status = "in_use"
                THEN LET newMileage == IF Truthy(processedData, "endOdometer")
                                         THEN processedData.endOdometer
                                         ELSE d1.vehicles[v].mileage
                     IN IF fail = 2 THEN Threw(d1, "StorageError")
                        ELSE Ok([d1 EXCEPT !.vehicles[v] =
                                   [status |-> "available", mileage |-> newMileage]])
              ELSE Ok(d1)
       ELSE Ok(d1)

\* DatabaseStorage.updateTrip
updateTrip(d, id, tripData, fail) == Transaction(d, updateTripTx(d, id, tripData, fail))

\* DatabaseStorage.deleteTrip
deleteTrip(d, id) ==
  IF id \notin DOMAIN d.trips THEN NotFound(d)
  ELSE Ok([d EXCEPT !.trips = Drop(@, id)])

\* POST /api/trips
PostTrips(req, body, fail) ==
  /\ nextId.trips <= MaxTrips
  /\ IF adminModOnly(req) # 0
       THEN Respond("POST /api/trips", adminModOnly(req)) /\ Commit(DB)
     ELSE IF body = Malformed
       THEN Respond("POST /api/trips", 400) /\ Commit(DB)
     ELSE LET r == createTrip(DB, body, fail)
          IN /\ Commit(r.db)
             /\ Respond("POST /api/trips", IF r.threw # "" THEN 500 ELSE 201)

\* PUT /api/trips/:id
PutTrips(req, id, body, fail) ==
  IF req = Anonymous
    THEN Respond("PUT /api/trips/:id", 401) /\ Commit(DB)
  ELSE IF id \notin DOMAIN trips
    THEN Respond("PUT /api/trips/:id", 404) /\ Commit(DB)
  ELSE IF req.id # trips[id].driverId /\ req.role # "admin" /\ req.role # "moderator"
    THEN Respond("PUT /api/trips/:id", 403) /\ Commit(DB)
  ELSE IF body = Malformed
    THEN Respond("PUT /api/trips/:id", 400) /\ Commit(DB)
  ELSE LET r == updateTrip(DB, id, body, fail)
       IN /\ Commit(r.db)
          /\ Respond("PUT /api/trips/:id",
                     IF r.threw # "" THEN 500 ELSE IF ~r.found THEN 404 ELSE 200)

\* DELETE /api/trips/:id
DeleteTrips(req, id) ==
  IF adminOnly(req) # 0
    THEN Respond("DELETE /api/trips/:id", adminOnly(req)) /\ Commit(DB)
  ELSE LET r == deleteTrip(DB, id)
       IN /\ Commit(r.db)
          /\ Respond("DELETE /api/trips/:id", IF ~r.found THEN 404 ELSE 204)

\* ------------------------------------------------------------- maintenance
\* INSERT INTO maintenance: nullable columns NULL and status 'pending' when
\* the data leaves them out.
MaintenanceRow(data) ==
  [vehicleId |-> data.vehicleId, date |-> data.date,
   odometer |-> Get(data, "odometer", Null),
   status |-> Get(data, "status", "pending"),
   completedAt |-> Get(data, "completedAt", Null)]

MaintenanceRefsOk(d, data) ==
  Has(data, "vehicleId") => data.vehicleId \in DOMAIN d.vehicles

\* createMaintenanceTx that moves an available vehicle to maintenance
\* whatever the record's status (as MemStorage.createMaintenance does).
createMaintenanceTx_AnyStatus(d, maintenanceData, fail) ==
  IF fail = 1 THEN Threw(d, "StorageError")
  ELSE IF ~MaintenanceRefsOk(d, maintenanceData) THEN Threw(d, "ForeignKeyViolation")
  ELSE
    LET id == d.nextId.maintenance
        d1 == [d EXCEPT !.maintenance = Put(@, id, MaintenanceRow(maintenanceData)),
                        !.nextId.maintenance = id + 1]
        v == maintenanceData.vehicleId
    IN IF v \in DOMAIN d1.vehicles /\ d1.vehicles[v].status = "available"
         THEN IF fail = 2 THEN Threw(d1, "StorageError")
              ELSE Ok([d1 EXCEPT !.vehicles[v].status = "maintenance"])
       ELSE Ok(d1)

\* The callback of createMaintenance's transaction: insert the record, then,
\* unless the data says completed, move an available vehicle to maintenance.
createMaintenanceTx(d, maintenanceData, fail) ==
  IF fail = 1 THEN Threw(d, "StorageError")
  ELSE IF ~MaintenanceRefsOk(d, maintenanceData) THEN Threw(d, "ForeignKeyViolation")
  ELSE
    LET id == d.nextId.maintenance
        d1 == [d EXCEPT !.maintenance = Put(@, id, MaintenanceRow(maintenanceData)),
                        !.nextId.maintenance = id + 1]
        v == maintenanceData.vehicleId
    IN IF Get(maintenanceData, "status", "") # "completed"
         THEN IF v \in DOMAIN d1.vehicles /\ d1.vehicles[v].status = "available"
                THEN IF fail = 2 THEN Threw(d1, "StorageError")
                     ELSE Ok([d1 EXCEPT !.vehicles[v].status = "maintenance"])
              ELSE Ok(d1)
       ELSE Ok(d1)

\* DatabaseStorage.createMaintenance
createMaintenance(d, maintenanceData, fail) ==
  Transaction(d, createMaintenanceTx(d, maintenanceData, fail))

\* updateMaintenanceTx that also copies the record's odometer to the
\* vehicle's mileage on completion (as updateTrip does with endOdometer).
updateMaintenanceTx_SyncMileage(d, id, maintenanceData, fail) ==
  IF fail = 1 THEN Threw(d, "StorageError")
  ELSE IF id \notin DOMAIN d.maintenance THEN NotFound(d)
  ELSE IF ~MaintenanceRefsOk(d, maintenanceData) THEN Threw(d, "ForeignKeyViolation")
  ELSE
    LET d1 == [d EXCEPT !.maintenance[id] = Merge(@, maintenanceData)]
        v == d1.maintenance[id].vehicleId
    IN IF Get(maintenanceData, "status", "") = "completed"
         THEN IF v \in DOMAIN d1.vehicles /\ d1.vehicles[v].status = "maintenance"
                THEN IF fail = 2 THEN Threw(d1, "StorageError")
                     ELSE Ok([d1 EXCEPT !.vehicles[v] =
                                [status |-> "available",
                                 mileage |-> IF Truthy(maintenanceData, "odometer")
                                               THEN maintenanceData.odometer
                                               ELSE d1.vehicles[v].mileage]])
              ELSE Ok(d1)
       ELSE Ok(d1)

\* The callback of updateMaintenance's transaction: update the record, then,
\* when the data says completed, move a vehicle in maintenance to available.
updateMaintenanceTx(d, id, maintenanceData, fail) ==
  IF fail = 1 THEN Threw(d, "StorageError")
  ELSE IF id \notin DOMAIN d.maintenance THEN NotFound(d)
  ELSE IF ~MaintenanceRefsOk(d, maintenanceData) THEN Threw(d, "ForeignKeyViolation")
  ELSE
    LET d1 == [d EXCEPT !.maintenance[id] = Merge(@, maintenanceData)]
        v == d1.maintenance[id].vehicleId
    IN IF Get(maintenanceData, "status", "") = "completed"
         THEN IF v \in DOMAIN d1.vehicles /\ d1.vehicles[v].status = "maintenance"
                THEN IF fail = 2 THEN Threw(d1, "StorageError")
                     ELSE Ok([d1 EXCEPT !.vehicles[v].status = "available"])
              ELSE Ok(d1)
       ELSE Ok(d1)

\* DatabaseStorage.updateMaintenance
updateMaintenance(d, id, maintenanceData, fail) ==
  Transaction(d, updateMaintenanceTx(d, id, maintenanceData, fail))

\* DatabaseStorage.deleteMaintenance
deleteMaintenance(d, id) ==
  IF id \notin DOMAIN d.maintenance THEN NotFound(d)
  ELSE Ok([d EXCEPT !.maintenance = Drop(@, id)])

\* DatabaseStorage.listUpcomingMaintenance on CURRENT_DATE = today: the ids
\* of the rows WHERE status != 'completed' AND date >= CURRENT_DATE, in any
\* of the orders ORDER BY date allows.
listUpcomingMaintenance(d, today) ==
  LET rows == {m \in DOMAIN d.maintenance :
                 d.maintenance[m].status # "completed" /\ d.maintenance[m].date >= today}
  IN {list \in [1..Cardinality(rows) -> rows] :
        /\ \A i, j \in DOMAIN list : i # j => list[i] # list[j]
        /\ \A i, j \in DOMAIN list :
             i < j => d.maintenance[list[i]].date <= d.maintenance[list[j]].date}

\* GET /api/maintenance/upcoming
GetUpcomingMaintenance(req, today) ==
  /\ IF req = Anonymous
       THEN last' = [op |-> "GET /api/maintenance/upcoming", code |-> 401, body |-> <<>>]
     ELSE \E list \in listUpcomingMaintenance(DB, today) :
            last' = [op |-> "GET /api/maintenance/upcoming", code |-> 200, body |-> list]
  /\ Commit(DB)

\* POST /api/maintenance
PostMaintenance(req, body, fail) ==
  /\ nextId.maintenance <= MaxMaintenance
  /\ IF adminModOnly(req) # 0
       THEN Respond("POST /api/maintenance", adminModOnly(req)) /\ Commit(DB)
     ELSE IF body = Malformed
       THEN Respond("POST /api/maintenance", 400) /\ Commit(DB)
     ELSE LET r == createMaintenance(DB, body, fail)
          IN /\ Commit(r.db)
             /\ Respond("POST /api/maintenance", IF r.threw # "" THEN 500 ELSE 201)

\* PUT /api/maintenance/:id
PutMaintenance(req, id, body, fail) ==
  IF adminModOnly(req) # 0
    THEN Respond("PUT /api/maintenance/:id", adminModOnly(req)) /\ Commit(DB)
  ELSE IF body = Malformed
    THEN Respond("PUT /api/maintenance/:id", 400) /\ Commit(DB)
  ELSE LET r == updateMaintenance(DB, id, body, fail)
       IN /\ Commit(r.db)
          /\ Respond("PUT /api/maintenance/:id",
                     IF r.threw # "" THEN 500 ELSE IF ~r.found THEN 404 ELSE 200)

\* DELETE /api/maintenance/:id
DeleteMaintenance(req, id) ==
  IF adminOnly(req) # 0
    THEN Respond("DELETE /api/maintenance/:id", adminOnly(req)) /\ Commit(DB)
  ELSE LET r == deleteMaintenance(DB, id)
       IN /\ Commit(r.db)
          /\ Respond("DELETE /api/maintenance/:id", IF ~r.found THEN 404 ELSE 204)

\* ---------------------------------------------------------------- bookings
\* INSERT INTO bookings: status 'pending' when the data leaves it out.
BookingRow(data) ==
  [vehicleId |-> data.vehicleId, userId |-> data.userId,
   startTime |-> data.startTime, endTime |-> data.endTime,
   status |-> Get(data, "status", "pending")]

BookingRefsOk(d, data) ==
  /\ Has(data, "vehicleId") => data.vehicleId \in DOMAIN d.vehicles
  /\ Has(data, "userId") => data.userId \in DOMAIN d.users

\* createBooking without the availability check (as MemStorage.createBooking).
createBooking_NoAvailabilityCheck(d, bookingData, fail) ==
  IF fail = 1 THEN Threw(d, "StorageError")
  ELSE IF ~BookingRefsOk(d, bookingData) THEN Threw(d, "ForeignKeyViolation")
  ELSE Ok([d EXCEPT !.bookings = Put(@, d.nextId.bookings, BookingRow(bookingData)),
                    !.nextId.bookings = d.nextId.bookings + 1])

\* createBooking that reserves the vehicle it books (as createTrip does
\* with the vehicle of a trip).
createBooking_ReservesVehicle(d, bookingData, fail) ==
  LET v == bookingData.vehicleId
  IN IF v \notin DOMAIN d.vehicles THEN Threw(d, "Vehicle not found")
     ELSE IF d.vehicles[v].status # "available" THEN Threw(d, "Vehicle not available")
     ELSE IF fail = 1 THEN Threw(d, "StorageError")
     ELSE IF ~BookingRefsOk(d, bookingData) THEN Threw(d, "ForeignKeyViolation")
     ELSE LET id == d.nextId.bookings
          IN Ok([d EXCEPT !.bookings = Put(@, id, BookingRow(bookingData)),
                          !.nextId.bookings = id + 1,
                          !.vehicles[v].status = "in_use"])

\* DatabaseStorage.createBooking: read the vehicle, refuse when it is
\* missing or not available, then insert the booking.
createBooking(d, bookingData, fail) ==
  LET v == bookingData.vehicleId
  IN IF v \notin DOMAIN d.vehicles THEN Threw(d, "Vehicle not found")
     ELSE IF d.vehicles[v].status # "available" THEN Threw(d, "Vehicle not available")
     ELSE IF fail = 1 THEN Threw(d, "StorageError")
     ELSE IF ~BookingRefsOk(d, bookingData) THEN Threw(d, "ForeignKeyViolation")
     ELSE LET id == d.nextId.bookings
          IN Ok([d EXCEPT !.bookings = Put(@, id, BookingRow(bookingData)),
                          !.nextId.bookings = id + 1])

\* updateBooking with a state-machine guard: a completed, cancelled or
\* declined booking keeps its status.
updateBooking_Guarded(d, id, bookingData, fail) ==
  IF fail = 1 THEN Threw(d, "StorageError")
  ELSE IF id \notin DOMAIN d.bookings THEN NotFound(d)
  ELSE IF ~BookingRefsOk(d, bookingData) THEN Threw(d, "ForeignKeyViolation")
  ELSE IF /\ d.bookings[id].status \in {"completed", "cancelled", "declined"}
          /\ Get(bookingData, "status", d.bookings[id].status) # d.bookings[id].status
    THEN Threw(d, "ConflictError")
  ELSE Ok([d EXCEPT !.bookings[id] = Merge(@, bookingData)])

\* DatabaseStorage.updateBooking
updateBooking(d, id, bookingData, fail) ==
  IF fail = 1 THEN Threw(d, "StorageError")
  ELSE IF id \notin DOMAIN d.bookings THEN NotFound(d)
  ELSE IF ~BookingRefsOk(d, bookingData) THEN Threw(d, "ForeignKeyViolation")
  ELSE Ok([d EXCEPT !.bookings[id] = Merge(@, bookingData)])

\* DatabaseStorage.deleteBooking
deleteBooking(d, id) ==
  IF id \notin DOMAIN d.bookings THEN NotFound(d)
  ELSE Ok([d EXCEPT !.bookings = Drop(@, id)])

\* The status POST /api/bookings answers a thrown error with.
BookingErrorCode(msg) ==
  IF msg = "Vehicle not found" THEN 404
  ELSE IF msg = "Vehicle not available" THEN 422
  ELSE 500

\* POST /api/bookings
PostBookings(req, body, fail) ==
  /\ nextId.bookings <= MaxBookings
  /\ IF req = Anonymous
       THEN Respond("POST /api/bookings", 401) /\ Commit(DB)
     ELSE IF body = Malformed
       THEN Respond("POST /api/bookings", 400) /\ Commit(DB)
     ELSE LET r == createBooking(DB, body, fail)
          IN /\ Commit(r.db)
             /\ Respond("POST /api/bookings",
                        IF r.threw # "" THEN BookingErrorCode(r.threw) ELSE 201)

\* PUT /api/bookings/:id
PutBookings(req, id, body, fail) ==
  IF req = Anonymous
    THEN Respond("PUT /api/bookings/:id", 401) /\ Commit(DB)
  ELSE IF id \notin DOMAIN bookings
    THEN Respond("PUT /api/bookings/:id", 404) /\ Commit(DB)
  ELSE IF req.id # bookings[id].userId /\ req.role # "admin" /\ req.role # "moderator"
    THEN Respond("PUT /api/bookings/:id", 403) /\ Commit(DB)
  ELSE IF body = Malformed
    THEN Respond("PUT /api/bookings/:id", 400) /\ Commit(DB)
  ELSE LET r == updateBooking(DB, id, body, fail)
       IN /\ Commit(r.db)
          /\ Respond("PUT /api/bookings/:id",
                     IF r.threw # "" THEN 500 ELSE IF ~r.found THEN 404 ELSE 200)

\* DELETE /api/bookings/:id
DeleteBookings(req, id) ==
  IF adminOnly(req) # 0
    THEN Respond("DELETE /api/bookings/:id", adminOnly(req)) /\ Commit(DB)
  ELSE LET r == deleteBooking(DB, id)
       IN /\ Commit(r.db)
          /\ Respond("DELETE /api/bookings/:id", IF ~r.found THEN 404 ELSE 204)

\* ------------------------------------------------------------------- users
\* DatabaseStorage.getUserByUsername
getUserByUsername(d, username) == {u \in DOMAIN d.users : d.users[u].username = username}

\* DatabaseStorage.createUser: the role defaults to moderator; username is
\* a unique column.
createUser(d, insertUser, fail) ==
  IF fail = 1 THEN Threw(d, "StorageError")
  ELSE IF getUserByUsername(d, insertUser.username) # {} THEN Threw(d, "UniqueViolation")
  ELSE LET id == d.nextId.users
       IN Ok([d EXCEPT !.users = Put(@, id, [username |-> insertUser.username,
                                             role |-> Get(insertUser, "role", "moderator")]),
                       !.nextId.users = id + 1])

\* DatabaseStorage.deleteUser: DELETE FROM users WHERE id; the store refuses
\* the delete while a trip or booking references the user.
deleteUser(d, id) ==
  IF id \notin DOMAIN d.users THEN NotFound(d)
  ELSE IF \/ \E t \in DOMAIN d.trips : d.trips[t].driverId = id
          \/ \E b \in DOMAIN d.bookings : d.bookings[b].userId = id
    THEN Threw(d, "ForeignKeyViolation")
  ELSE Ok([d EXCEPT !.users = Drop(@, id)])

\* POST /api/users (the handler registered first answers every request)
PostUsers(req, body, fail) ==
  /\ nextId.users <= 2 + MaxUsers
  /\ IF req = Anonymous \/ req.role # "admin"
       THEN Respond("POST /api/users", 403) /\ Commit(DB)
     ELSE IF body = Malformed
       THEN Respond("POST /api/users", 400) /\ Commit(DB)
     ELSE IF getUserByUsername(DB, body.username) # {}
       THEN Respond("POST /api/users", 400) /\ Commit(DB)
     ELSE LET r == createUser(DB, body, fail)
          IN /\ Commit(r.db)
             /\ Respond("POST /api/users", IF r.threw # "" THEN 500 ELSE 201)

\* DELETE /api/users/:id that deletes users of any role.
DeleteUsers_AnyRole(req, id) ==
  IF adminOnly(req) # 0
    THEN Respond("DELETE /api/users/:id", adminOnly(req)) /\ Commit(DB)
  ELSE IF req.id = id
    THEN Respond("DELETE /api/users/:id", 400) /\ Commit(DB)
  ELSE IF id \notin DOMAIN users
    THEN Respond("DELETE /api/users/:id", 404) /\ Commit(DB)
  ELSE LET r == deleteUser(DB, id)
       IN /\ Commit(r.db)
          /\ Respond("DELETE /api/users/:id", IF r.threw # "" \/ ~r.found THEN 500 ELSE 200)

\* DELETE /api/users/:id
DeleteUsers(req, id) ==
  IF adminOnly(req) # 0
    THEN Respond("DELETE /api/users/:id", adminOnly(req)) /\ Commit(DB)
  ELSE IF req.id = id
    THEN Respond("DELETE /api/users/:id", 400) /\ Commit(DB)
  ELSE IF id \notin DOMAIN users
    THEN Respond("DELETE /api/users/:id", 404) /\ Commit(DB)
  ELSE IF users[id].role = "admin"
    THEN Respond("DELETE /api/users/:id", 403) /\ Commit(DB)
  ELSE LET r == deleteUser(DB, id)
       IN /\ Commit(r.db)
          /\ Respond("DELETE /api/users/:id", IF r.threw # "" \/ ~r.found THEN 500 ELSE 200)

\* ---------------------------------------------------------- initialization
\* initializeDatabase, first await: count the users.  The count throws
\* (fail) or returns; with users stored the database is initialized.
InitializeCount(fail) ==
  /\ initializationPromise = [state |-> "pending", at |-> "count"]
  /\ IF fail
       THEN /\ initializationPromise' = [state |-> "rejected", at |-> "done"]
            /\ UNCHANGED initialized
     ELSE IF users = <<>>
       THEN /\ initializationPromise' = [state |-> "pending", at |-> "insert"]
            /\ UNCHANGED initialized
     ELSE /\ initializationPromise' = [state |-> "fulfilled", at |-> "done"]
          /\ initialized' = TRUE
  /\ Respond("initializeDatabase", IF fail THEN "rejected" ELSE "")
  /\ UNCHANGED <<users, vehicles, trips, maintenance, bookings, nextId, calls>>

\* initializeDatabase, second await: insert the admin user.
InitializeInsert(fail) ==
  /\ initializationPromise = [state |-> "pending", at |-> "insert"]
  /\ IF fail
       THEN /\ initializationPromise' = [state |-> "rejected", at |-> "done"]
            /\ UNCHANGED <<initialized, users, nextId>>
     ELSE /\ users' = Put(users, nextId.users, [username |-> "admin", role |-> "admin"])
          /\ nextId' = [nextId EXCEPT !.users = @ + 1]
          /\ initializationPromise' = [state |-> "fulfilled", at |-> "done"]
          /\ initialized' = TRUE
  /\ Respond("initializeDatabase", IF fail THEN "rejected" ELSE "")
  /\ UNCHANGED <<vehicles, trips, maintenance, bookings, calls>>

\* ensureInitialized that lets every operation through.
ensureInitialized_NoWait(done, promise) == "return"

\* ensureInitialized: return at once when initialized, else await the
\* promise: wait while it is pending, throw its error when it is rejected.
ensureInitialized(done, promise) ==
  IF done THEN "return"
  ELSE IF promise.state = "pending" THEN "wait"
  ELSE IF promise.state = "rejected" THEN "throw"
  ELSE "return"

\* A storage method called directly: await this.ensureInitialized(), then
\* the method's statements, whose outcome on the database is r.
StorageCall(method, r) ==
  /\ ensureInitialized(initialized, initializationPromise) # "wait"
  /\ IF ensureInitialized(initialized, initializationPromise) = "throw"
       THEN Commit(DB) /\ Respond(method, "InitializationError")
     ELSE Commit(r.db) /\ Respond(method, r.threw)

\* ------------------------------------------------------------ MemStorage
\* The in-memory implementation of the same storage interface: rows are the
\* data as given plus the id, no reference is checked, nothing throws.

\* MemStorage.createTrip: store the trip, then move an available vehicle to
\* in_use, whatever the trip's status.
MemStorage_createTrip(d, insertTrip) ==
  LET id == d.nextId.trips
      d1 == [d EXCEPT !.trips = Put(@, id, insertTrip), !.nextId.trips = id + 1]
      v == insertTrip.vehicleId
  IN IF v \in DOMAIN d1.vehicles /\ d1.vehicles[v].status = "available"
       THEN Ok([d1 EXCEPT !.vehicles[v].status = "in_use"])
     ELSE Ok(d1)

\* MemStorage.updateTrip
MemStorage_updateTrip(d, id, tripData) ==
  IF id \notin DOMAIN d.trips THEN NotFound(d)
  ELSE
    LET d1 == [d EXCEPT !.trips[id] = tripData @@ @]
        v == d.trips[id].vehicleId
    IN IF Get(tripData, "status", "") = "completed" /\ Truthy(tripData, "endTime")
         THEN IF v \in DOMAIN d1.vehicles /\ d1.vehicles[v].status = "in_use"
                THEN Ok([d1 EXCEPT !.vehicles[v] =
                           [status |-> "available",
                            mileage |-> IF Truthy(tripData, "endOdometer")
                                          THEN tripData.endOdometer
                                        ELSE d1.vehicles[v].mileage]])
              ELSE Ok(d1)
       ELSE Ok(d1)

\* MemStorage.createMaintenance: store the record, then move an available
\* vehicle to maintenance, whatever the record's status.
MemStorage_createMaintenance(d, insertMaintenance) ==
  LET id == d.nextId.maintenance
      d1 == [d EXCEPT !.maintenance = Put(@, id, insertMaintenance),
                      !.nextId.maintenance = id + 1]
      v == insertMaintenance.vehicleId
  IN IF v \in DOMAIN d1.vehicles /\ d1.vehicles[v].status = "available"
       THEN Ok([d1 EXCEPT !.vehicles[v].status = "maintenance"])
     ELSE Ok(d1)

\* MemStorage.updateMaintenance: the vehicle is released only when the data
\* carries status completed and a completedAt.
MemStorage_updateMaintenance(d, id, maintenanceData) ==
  IF id \notin DOMAIN d.maintenance THEN NotFound(d)
  ELSE
    LET d1 == [d EXCEPT !.maintenance[id] = maintenanceData @@ @]
        v == d.maintenance[id].vehicleId
    IN IF /\ Get(maintenanceData, "status", "") = "completed"
          /\ Truthy(maintenanceData, "completedAt")
         THEN IF v \in DOMAIN d1.vehicles /\ d1.vehicles[v].status = "maintenance"
                THEN Ok([d1 EXCEPT !.vehicles[v].status = "available"])
              ELSE Ok(d1)
       ELSE Ok(d1)

\* MemStorage.createBooking: store the booking; the vehicle is not read.
MemStorage_createBooking(d, insertBooking) ==
  LET id == d.nextId.bookings
  IN Ok([d EXCEPT !.bookings = Put(@, id, insertBooking), !.nextId.bookings = id + 1])

\* --------------------------------------------------------- specifications
\* ------------------------------------------------- concurrent requests
\* Node serves another request at every await of a storage call.  The store
\* is PostgreSQL reached through db.transaction(cb) with no isolation level
\* given, read committed: a SELECT sees the rows committed at the time it
\* runs, an inserted row is visible to the others from COMMIT on, an UPDATE
\* waits while another transaction in flight has written the row, and a
\* serial id is taken at the INSERT.
Clients == 1..NumClients
\* Every client sends one request.
Idle == [op |-> "idle", pc |-> "idle", vehicleId |-> 0, id |-> 0, seen |-> "", wrote |-> FALSE]

\* The bodies of the concurrent requests on vehicle v.
TripStart(v) ==
  [vehicleId |-> v, driverId |-> 1, startTime |-> 1, startOdometer |-> 0,
   status |-> "in_progress"]
MaintenanceOpen(v) == [vehicleId |-> v, date |-> 1]
BookingOf(v) == [vehicleId |-> v, userId |-> 1, startTime |-> 1, endTime |-> 1]

\* Another transaction in flight holds the row lock of vehicle v.
RowLocked(c, v) ==
  \E o \in Clients \ {c} :
    calls[o].pc = "commit" /\ calls[o].wrote /\ calls[o].vehicleId = v

\* createTrip / createMaintenance, first statement: tx.insert(...).returning().
\* The vehicle_id column references vehicles.id: the insert throws when no
\* such vehicle is stored, the transaction rolls back, the route answers 500.
TxInsert(c, op, v) ==
  /\ calls[c].pc = "idle"
  /\ calls' = [calls EXCEPT ![c] =
       [op |-> op, pc |-> IF v \in DOMAIN vehicles THEN "select" ELSE "done", vehicleId |-> v,
        id |-> IF op = "createTrip" THEN nextId.trips ELSE nextId.maintenance,
        seen |-> "", wrote |-> FALSE]]
  /\ nextId' = IF op = "createTrip" THEN [nextId EXCEPT !.trips = @ + 1]
                                    ELSE [nextId EXCEPT !.maintenance = @ + 1]
  /\ IF v \in DOMAIN vehicles THEN UNCHANGED last
     ELSE Respond(IF op = "createTrip" THEN "POST /api/trips"
                                       ELSE "POST /api/maintenance", 500)
  /\ UNCHANGED <<initialized, initializationPromise, users, vehicles, trips, maintenance, bookings>>

\* second statement: tx.select().from(vehicles).where(eq(vehicles.id, ...)).
TxSelect(c) ==
  /\ calls[c].pc = "select"
  /\ LET status == vehicles[calls[c].vehicleId].status
     IN calls' = [calls EXCEPT ![c].seen = status,
                               ![c].pc = IF status = "available" THEN "update" ELSE "commit"]
  /\ UNCHANGED <<initialized, initializationPromise, users, vehicles, trips, maintenance, bookings, nextId, last>>

\* third statement, when the status read is available:
\* tx.update(vehicles).set({ status }).where(eq(vehicles.id, ...)).
TxUpdate(c) ==
  /\ calls[c].pc = "update"
  /\ ~RowLocked(c, calls[c].vehicleId)
  /\ calls' = [calls EXCEPT ![c].wrote = TRUE, ![c].pc = "commit"]
  /\ UNCHANGED <<initialized, initializationPromise, users, vehicles, trips, maintenance, bookings, nextId, last>>

\* The callback returns: COMMIT publishes the inserted row and the vehicle
\* update, and the route answers 201.
TxCommit(c) ==
  /\ calls[c].pc = "commit"
  /\ LET call == calls[c]
         v == call.vehicleId
     IN /\ IF call.op = "createTrip"
             THEN /\ trips' = Put(trips, call.id, TripRow(TripStart(v)))
                  /\ UNCHANGED maintenance
             ELSE /\ maintenance' = Put(maintenance, call.id, MaintenanceRow(MaintenanceOpen(v)))
                  /\ UNCHANGED trips
        /\ vehicles' = IF call.wrote
                         THEN [vehicles EXCEPT ![v].status =
                                 IF call.op = "createTrip" THEN "in_use" ELSE "maintenance"]
                       ELSE vehicles
        /\ Respond(IF call.op = "createTrip" THEN "POST /api/trips"
                                             ELSE "POST /api/maintenance", 201)
  /\ calls' = [calls EXCEPT ![c].pc = "done"]
  /\ UNCHANGED <<initialized, initializationPromise, users, bookings, nextId>>

\* createBooking, first statement: db.select().from(vehicles), and the two
\* throws that follow it.
BookingSelect(c, v) ==
  /\ calls[c].pc = "idle"
  /\ LET status == IF v \in DOMAIN vehicles THEN vehicles[v].status ELSE ""
     IN /\ calls' = [calls EXCEPT ![c] =
             [op |-> "createBooking", pc |-> IF status = "available" THEN "insert" ELSE "done",
              vehicleId |-> v, id |-> 0, seen |-> status, wrote |-> FALSE]]
        /\ IF status = "available" THEN UNCHANGED last
           ELSE Respond("POST /api/bookings",
                        BookingErrorCode(IF status = "" THEN "Vehicle not found"
                                                        ELSE "Vehicle not available"))
  /\ UNCHANGED <<initialized, initializationPromise, users, vehicles, trips, maintenance, bookings, nextId>>

\* createBooking, second statement: db.insert(bookings), outside any
\* transaction; it throws (500) when the vehicle it references is gone.
BookingInsert(c) ==
  /\ calls[c].pc = "insert"
  /\ nextId' = [nextId EXCEPT !.bookings = @ + 1]
  /\ IF calls[c].vehicleId \in DOMAIN vehicles
       THEN /\ bookings' = Put(bookings, nextId.bookings,
                               BookingRow(BookingOf(calls[c].vehicleId)))
            /\ calls' = [calls EXCEPT ![c].pc = "done", ![c].id = nextId.bookings,
                                      ![c].wrote = TRUE]
            /\ Respond("POST /api/bookings", 201)
     ELSE /\ UNCHANGED bookings
          /\ calls' = [calls EXCEPT ![c].pc = "done"]
          /\ Respond("POST /api/bookings", 500)
  /\ UNCHANGED <<initialized, initializationPromise, users, vehicles, trips, maintenance>>

\* DELETE /api/vehicles/:id by the admin, first await:
\* storage.listMaintenanceForVehicle(id), 400 when a record is listed.
DeleteListMaintenance(c, v) ==
  /\ calls[c].pc = "idle"
  /\ LET free == listMaintenanceForVehicle(DB, v) = {}
     IN /\ calls' = [calls EXCEPT ![c] =
             [op |-> "deleteVehicle", pc |-> IF free THEN "trips" ELSE "done",
              vehicleId |-> v, id |-> 0, seen |-> "", wrote |-> FALSE]]
        /\ IF free THEN UNCHANGED last ELSE Respond("DELETE /api/vehicles/:id", 400)
  /\ UNCHANGED <<initialized, initializationPromise, users, vehicles, trips, maintenance, bookings, nextId>>

\* second await: storage.listTripsForVehicle(id)
DeleteListTrips(c) ==
  /\ calls[c].pc = "trips"
  /\ LET free == listTripsForVehicle(DB, calls[c].vehicleId) = {}
     IN /\ calls' = [calls EXCEPT ![c].pc = IF free THEN "bookings" ELSE "done"]
        /\ IF free THEN UNCHANGED last ELSE Respond("DELETE /api/vehicles/:id", 400)
  /\ UNCHANGED <<initialized, initializationPromise, users, vehicles, trips, maintenance, bookings, nextId>>

\* third await: storage.listBookingsForVehicle(id)
DeleteListBookings(c) ==
  /\ calls[c].pc = "bookings"
  /\ LET free == listBookingsForVehicle(DB, calls[c].vehicleId) = {}
     IN /\ calls' = [calls EXCEPT ![c].pc = IF free THEN "delete" ELSE "done"]
        /\ IF free THEN UNCHANGED last ELSE Respond("DELETE /api/vehicles/:id", 400)
  /\ UNCHANGED <<initialized, initializationPromise, users, vehicles, trips, maintenance, bookings, nextId>>

\* A transaction in flight has inserted a row that references vehicle v: it
\* holds a key lock on the vehicle row until it commits.
KeyLocked(c, v) ==
  \E o \in Clients \ {c} :
    calls[o].pc \in {"select", "update", "commit"} /\ calls[o].vehicleId = v

\* fourth await: storage.deleteVehicle(id).  The DELETE waits for the key
\* lock, then throws (500) when a stored row references the vehicle.
DeleteRow(c) ==
  /\ calls[c].pc = "delete"
  /\ ~KeyLocked(c, calls[c].vehicleId)
  /\ LET r == deleteVehicle(DB, calls[c].vehicleId)
     IN /\ vehicles' = r.db.vehicles
        /\ Respond("DELETE /api/vehicles/:id",
                   IF r.threw # "" THEN 500 ELSE IF ~r.found THEN 404 ELSE 200)
  /\ calls' = [calls EXCEPT ![c].pc = "done"]
  /\ UNCHANGED <<initialized, initializationPromise, users, trips, maintenance, bookings, nextId>>

\* The database the server starts on: the users and vehicles already
\* stored (every vehicle available, with no trip, maintenance or booking yet).
Init ==
  /\ users = (1 :> [username |-> "admin", role |-> "admin"])
             @@ (2 :> [username |-> "moderator", role |-> "moderator"])
  /\ vehicles = [v \in 1..NumVehicles |-> [status |-> "available", mileage |-> 0]]
  /\ trips = <<>>
  /\ maintenance = <<>>
  /\ bookings = <<>>
  /\ nextId = [users |-> 3, vehicles |-> NumVehicles + 1, trips |-> 1,
               maintenance |-> 1, bookings |-> 1]
  /\ last = [op |-> "start", code |-> 0]
  /\ calls = [c \in Clients |-> Idle]
  /\ initialized = TRUE
  /\ initializationPromise = [state |-> "fulfilled", at |-> "done"]

\* The state the constructor leaves: initializeDatabase called and not yet
\* at its first await's result, on a database with or without users.
InitConstructed ==
  /\ users \in {<<>>, (1 :> [username |-> "admin", role |-> "admin"])}
  /\ vehicles = [v \in 1..NumVehicles |-> [status |-> "available", mileage |-> 0]]
  /\ trips = <<>>
  /\ maintenance = <<>>
  /\ bookings = <<>>
  /\ nextId = [users |-> Len(users) + 1, vehicles |-> NumVehicles + 1, trips |-> 1,
               maintenance |-> 1, bookings |-> 1]
  /\ last = [op |-> "start", code |-> ""]
  /\ calls = [c \in Clients |-> Idle]
  /\ initialized = FALSE
  /\ initializationPromise = [state |-> "pending", at |-> "count"]

\* The same database with a fleet registered (POST /api/vehicles) with any
\* mileage.
InitFleet ==
  /\ users = (1 :> [username |-> "admin", role |-> "admin"])
             @@ (2 :> [username |-> "moderator", role |-> "moderator"])
  /\ vehicles \in [1..NumVehicles -> {[status |-> "available", mileage |-> m] : m \in 0..MaxOdo}]
  /\ trips = <<>>
  /\ maintenance = <<>>
  /\ bookings = <<>>
  /\ nextId = [users |-> 3, vehicles |-> NumVehicles + 1, trips |-> 1,
               maintenance |-> 1, bookings |-> 1]
  /\ last = [op |-> "start", code |-> 0]
  /\ calls = [c \in Clients |-> Idle]
  /\ initialized = TRUE
  /\ initializationPromise = [state |-> "fulfilled", at |-> "done"]

\* req.user: no session, or a stored user (passport.deserializeUser).
Requesters == {Anonymous} \cup {[id |-> u, role |-> users[u].role] : u \in DOMAIN users}
Admin == [id |-> 1, role |-> "admin"]

\* A request body with key f drawn from S, or without key f.
Opt(f, S) == {<<>>} \cup {f :> x : x \in S}

VehicleIds == 1..NumVehicles
Odometers == 0..MaxOdo
Times == 1..MaxTime

\* Bodies of PUT /api/vehicles/:id: the administrative override of a
\* vehicle's status, or of its mileage.
StatusOverrides == {[status |-> s] : s \in VehicleStatus}
MileageOverrides == {[mileage |-> m] : m \in Odometers}

\* Ids of the users ever stored, and bodies of POST /api/users: a username,
\* with or without a role.
UserIds == 1..(2 + MaxUsers)
Usernames == {"admin", "ann", "bob"}
UserBodies == {[username |-> n] @@ r : n \in Usernames, r \in Opt("role", Roles)}
              \cup {Malformed}

\* Bodies of POST /api/vehicles.
VehicleBodies == {[mileage |-> MaxOdo], Malformed}

\* Bodies of POST /api/trips: a trip of driver 1 starting at time 1, with
\* or without a status.
TripBodies(odos, statuses) ==
  {[vehicleId |-> v, driverId |-> 1, startTime |-> 1, startOdometer |-> o] @@ s :
     v \in VehicleIds, o \in odos, s \in Opt("status", statuses)}
\* Bodies of PUT /api/trips/:id: a new status, with or without the
\* completion's endTime and endOdometer.
TripPatches(odos, statuses) ==
  {[status |-> s] @@ t @@ o : s \in statuses, t \in Opt("endTime", {1}),
                              o \in Opt("endOdometer", odos)}

\* Bodies of POST /api/maintenance and PUT /api/maintenance/:id.
MaintenanceBodies(odos, statuses) ==
  {[vehicleId |-> v, date |-> 1] @@ s @@ o :
     v \in VehicleIds, s \in Opt("status", statuses), o \in Opt("odometer", odos)}
\* The same on any date.
MaintenanceBodiesOn(dates, statuses) ==
  {[vehicleId |-> v, date |-> t] @@ s :
     v \in VehicleIds, t \in dates, s \in Opt("status", statuses)}
MaintenancePatches(odos, statuses) ==
  {[status |-> s] @@ c @@ o : s \in statuses, c \in Opt("completedAt", {1}),
                              o \in Opt("odometer", odos)}

\* Bodies of POST /api/bookings and PUT /api/bookings/:id: a booking of
\* user 1.
BookingBodies ==
  {[vehicleId |-> v, userId |-> 1, startTime |-> 1, endTime |-> e] :
     v \in VehicleIds, e \in Times}
\* The same with any start.
BookingBodiesAt(starts, ends) ==
  {[vehicleId |-> v, userId |-> 1, startTime |-> b, endTime |-> e] :
     v \in VehicleIds, b \in starts, e \in ends}
BookingPatches == {[status |-> s] : s \in BookingStatus}

\* The request bodies the specifications draw from, each set built once.
\* Trips of every status, or none, starting at odometer 0.
NewTrips == TripBodies({0}, TripStatus)
\* Trips in progress, or without a status.
StartedTrips == TripBodies({0}, {"in_progress"})
\* Trips without a status.
PlannedTrips == TripBodies({0}, {})
\* The same starting at every odometer reading.
StartedTripsAnyOdometer == TripBodies(Odometers, {"in_progress"})
\* Updates to every status.
TripUpdates == TripPatches({1}, TripStatus)
\* Completions without an endOdometer.
TripCompletions == TripPatches({}, {"completed"})
\* Completions with every endOdometer.
TripCompletionsAnyOdometer == TripPatches(Odometers, {"completed"})
\* Cancellations.
TripCancellations == TripPatches({}, {"cancelled"})
\* Records of every status, or none.
NewMaintenance == MaintenanceBodies({}, MaintenanceStatus)
\* Records without a status.
PendingMaintenance == MaintenanceBodies({}, {})
\* The same with or without an odometer reading.
PendingMaintenanceWithOdometer == MaintenanceBodies({MaxOdo}, {})
\* Records of every date and status.
DatedMaintenance == MaintenanceBodiesOn(Times, MaintenanceStatus)
\* Updates to every status.
MaintenanceUpdates == MaintenancePatches({}, MaintenanceStatus)
\* Completions.
MaintenanceCompletions == MaintenancePatches({}, {"completed"})
\* Updates to every status, with or without an odometer reading.
MaintenanceUpdatesWithOdometer == MaintenancePatches({MaxOdo}, MaintenanceStatus)
\* Completions, with or without an odometer reading.
MaintenanceCompletionsWithOdometer == MaintenancePatches({MaxOdo}, {"completed"})
\* Bookings of every start and end.
TimedBookings == BookingBodiesAt(Times, Times)
\* Bookings of the first time slot.
FirstSlotBookings == BookingBodiesAt({1}, {1})
\* The completion of a trip at the highest odometer reading.
TripCompletionAtMaxOdo == [status |-> "completed", endTime |-> 1, endOdometer |-> MaxOdo]

OverrideRoutes(reqs, bodies) ==
  \E req \in reqs, id \in VehicleIds, body \in bodies : PutVehicles(req, id, body, 0)

TripRoutes(reqs, bodies, patches, fails) ==
  \/ \E req \in reqs, body \in bodies, fail \in fails : PostTrips(req, body, fail)
  \/ \E req \in reqs, id \in 1..MaxTrips, body \in patches, fail \in fails :
       PutTrips(req, id, body, fail)
  \/ \E req \in reqs, id \in 1..MaxTrips : DeleteTrips(req, id)

MaintenanceRoutes(reqs, bodies, patches, fails) ==
  \/ \E req \in reqs, body \in bodies, fail \in fails : PostMaintenance(req, body, fail)
  \/ \E req \in reqs, id \in 1..MaxMaintenance, body \in patches, fail \in fails :
       PutMaintenance(req, id, body, fail)
  \/ \E req \in reqs, id \in 1..MaxMaintenance : DeleteMaintenance(req, id)

BookingRoutes(reqs, bodies, patches, fails) ==
  \/ \E req \in reqs, body \in bodies, fail \in fails : PostBookings(req, body, fail)
  \/ \E req \in reqs, id \in 1..MaxBookings, body \in patches, fail \in fails :
       PutBookings(req, id, body, fail)
  \/ \E req \in reqs, id \in 1..MaxBookings : DeleteBookings(req, id)

\* Normal operation: trips and maintenance records of every status, and no
\* direct edit of a vehicle.
Next ==
  \/ TripRoutes({Admin}, NewTrips, TripUpdates, {0})
  \/ MaintenanceRoutes({Admin}, NewMaintenance,
                       MaintenanceUpdates, {0})
Spec == Init /\ [][Next]_vars

\* The multi-entity operations (a trip started and completed, a maintenance
\* record opened and completed) on a store whose first or second write of
\* an operation may fail.
NextFail ==
  \/ \E body \in StartedTrips, fail \in 0..2 :
       PostTrips(Admin, body, fail)
  \/ \E id \in 1..MaxTrips, body \in TripCompletions, fail \in 0..2 :
       PutTrips(Admin, id, body, fail)
  \/ \E body \in PendingMaintenance, fail \in 0..2 :
       PostMaintenance(Admin, body, fail)
  \/ \E id \in 1..MaxMaintenance, body \in MaintenanceCompletions,
        fail \in 0..2 :
       PutMaintenance(Admin, id, body, fail)
SpecFail == Init /\ [][NextFail]_vars

\* Trips of every status on vehicles of every status.
NextTrips ==
  \/ OverrideRoutes({Admin}, StatusOverrides)
  \/ TripRoutes({Admin}, NewTrips, TripUpdates, {0})
SpecTrips == Init /\ [][NextTrips]_vars

\* Trips that start and complete, with every odometer reading, on vehicles
\* of every mileage.
NextOdo ==
  \/ OverrideRoutes({Admin}, MileageOverrides)
  \/ TripRoutes({Admin}, StartedTripsAnyOdometer,
                TripCompletionsAnyOdometer, {0})
SpecOdo == Init /\ [][NextOdo]_vars

\* Maintenance records of every status on vehicles of every status.
NextMaint ==
  \/ OverrideRoutes({Admin}, StatusOverrides)
  \/ MaintenanceRoutes({Admin}, NewMaintenance,
                       MaintenanceUpdatesWithOdometer, {0})
SpecMaint == Init /\ [][NextMaint]_vars

\* Bookings, by every requester, on vehicles of every status.
NextBook ==
  \/ OverrideRoutes({Admin}, StatusOverrides)
  \/ BookingRoutes(Requesters, FirstSlotBookings \cup {Malformed}, BookingPatches, 0..1)
SpecBook == Init /\ [][NextBook]_vars

\* Vehicles deleted, by every requester, while child records come and go.
NextDelete ==
  \/ \E req \in Requesters, id \in VehicleIds : DeleteVehicles(req, id)
  \/ \E body \in PlannedTrips : PostTrips(Admin, body, 0)
  \/ \E id \in 1..MaxTrips : DeleteTrips(Admin, id)
  \/ \E body \in PendingMaintenance : PostMaintenance(Admin, body, 0)
  \/ \E id \in 1..MaxMaintenance : DeleteMaintenance(Admin, id)
  \/ \E body \in BookingBodies : PostBookings(Admin, body, 0)
  \/ \E id \in 1..MaxBookings : DeleteBookings(Admin, id)
SpecDelete == Init /\ [][NextDelete]_vars

\* Trips, maintenance records and bookings on a fleet of any mileage, with
\* no direct edit of a vehicle.
NextMileage ==
  \/ TripRoutes({Admin}, StartedTripsAnyOdometer,
                TripCompletionsAnyOdometer, {0})
  \/ MaintenanceRoutes({Admin}, PendingMaintenanceWithOdometer,
                       MaintenanceCompletionsWithOdometer, {0})
  \/ BookingRoutes({Admin}, BookingBodies, {[status |-> "cancelled"]}, {0})
SpecMileage == InitFleet /\ [][NextMileage]_vars

\* Bookings of every start and end, by every requester, on vehicles of every
\* status.
NextBookTimes ==
  \/ OverrideRoutes({Admin}, StatusOverrides)
  \/ BookingRoutes(Requesters, TimedBookings \cup {Malformed},
                   BookingPatches, 0..1)
SpecBookTimes == Init /\ [][NextBookTimes]_vars

\* Maintenance records of every date and status, and the list of the
\* upcoming ones asked for on every date.
NextUpcoming ==
  \/ MaintenanceRoutes({Admin}, DatedMaintenance,
                       MaintenanceUpdatesWithOdometer, {0})
  \/ \E req \in Requesters, today \in Times : GetUpcomingMaintenance(req, today)
SpecUpcoming == Init /\ [][NextUpcoming]_vars

\* Vehicles registered, and trips and bookings created and updated, by
\* every requester, with or without a session.
NextAuth ==
  \/ \E req \in Requesters, body \in VehicleBodies, fail \in 0..1 :
       PostVehicles(req, body, fail)
  \/ \E body \in PlannedTrips : PostTrips(Admin, body, 0)
  \/ \E req \in Requesters, id \in 1..MaxTrips, body \in TripCancellations :
       PutTrips(req, id, body, 0)
  \/ \E body \in FirstSlotBookings : PostBookings(Admin, body, 0)
  \/ \E req \in Requesters, id \in 1..MaxBookings :
       PutBookings(req, id, [status |-> "approved"], 0)
SpecAuth == Init /\ [][NextAuth]_vars

\* Trips started, maintenance opened and vehicles booked by concurrent
\* requests, their store statements interleaved.
NextRace ==
  \/ \E c \in Clients, op \in {"createTrip", "createMaintenance"}, v \in VehicleIds :
       TxInsert(c, op, v)
  \/ \E c \in Clients : TxSelect(c)
  \/ \E c \in Clients : TxUpdate(c)
  \/ \E c \in Clients : TxCommit(c)
  \/ \E c \in Clients, v \in VehicleIds : BookingSelect(c, v)
  \/ \E c \in Clients : BookingInsert(c)
SpecRace == Init /\ [][NextRace]_vars

\* Trips, maintenance records and bookings on vehicles that the admin takes
\* out of service and puts back.
NextService ==
  \/ OverrideRoutes({Admin}, {[status |-> "out_of_service"], [status |-> "available"]})
  \/ \E body \in StartedTrips : PostTrips(Admin, body, 0)
  \/ \E id \in 1..MaxTrips :
       PutTrips(Admin, id, TripCompletionAtMaxOdo, 0)
  \/ \E body \in PendingMaintenance : PostMaintenance(Admin, body, 0)
  \/ \E id \in 1..MaxMaintenance : PutMaintenance(Admin, id, [status |-> "completed"], 0)
  \/ \E body \in FirstSlotBookings : PostBookings(Admin, body, 0)
SpecService == Init /\ [][NextService]_vars

\* Users created and deleted by every requester, some of them drivers of
\* trips.
NextUsers ==
  \/ \E req \in Requesters, body \in UserBodies, fail \in 0..1 : PostUsers(req, body, fail)
  \/ \E req \in Requesters, id \in UserIds : DeleteUsers(req, id)
  \/ \E driver \in DOMAIN users :
       PostTrips(Admin, [vehicleId |-> 1, driverId |-> driver, startTime |-> 1,
                         startOdometer |-> 0], 0)
SpecUsers == Init /\ [][NextUsers]_vars

\* The storage methods called from the construction of the storage on,
\* while initializeDatabase runs, succeeds or fails.
DataOperations == {"createVehicle", "createTrip", "updateTrip", "createMaintenance",
                   "createBooking", "deleteVehicle"}
NextInit ==
  \/ \E fail \in BOOLEAN : InitializeCount(fail)
  \/ \E fail \in BOOLEAN : InitializeInsert(fail)
  \/ \E data \in VehicleBodies \ {Malformed} :
       /\ nextId.vehicles <= NumVehicles + 1
       /\ StorageCall("createVehicle", createVehicle(DB, data, 0))
  \/ \E data \in StartedTrips :
       /\ nextId.trips <= MaxTrips
       /\ StorageCall("createTrip", createTrip(DB, data, 0))
  \/ \E id \in 1..MaxTrips, data \in TripCompletions :
       StorageCall("updateTrip", updateTrip(DB, id, data, 0))
  \/ \E data \in PendingMaintenance :
       /\ nextId.maintenance <= MaxMaintenance
       /\ StorageCall("createMaintenance", createMaintenance(DB, data, 0))
  \/ \E data \in FirstSlotBookings :
       /\ nextId.bookings <= MaxBookings
       /\ StorageCall("createBooking", createBooking(DB, data, 0))
  \/ \E id \in VehicleIds : StorageCall("deleteVehicle", deleteVehicle(DB, id))
SpecInit == InitConstructed /\ [][NextInit]_vars

\* The same requests, and deletions of vehicles, interleaved.
NextDeleteRace ==
  \/ NextRace
  \/ \E c \in Clients, v \in VehicleIds : DeleteListMaintenance(c, v)
  \/ \E c \in Clients : DeleteListTrips(c)
  \/ \E c \in Clients : DeleteListBookings(c)
  \/ \E c \in Clients : DeleteRow(c)
SpecDeleteRace == Init /\ [][NextDeleteRace]_vars

\* ------------------------------------------------------------------ claims
\* C1: in normal operation (Spec: trip and maintenance requests only, no
\* direct vehicle edit) no vehicle has at the same time a trip in progress
\* and a maintenance record that is not completed.
C1_NeverTripAndOpenMaintenance ==
  \A v \in DOMAIN vehicles :
    ~(/\ \E t \in DOMAIN trips :
           trips[t].vehicleId = v /\ trips[t].status = "in_progress"
      /\ \E m \in DOMAIN maintenance :
           maintenance[m].vehicleId = v /\ maintenance[m].status # "completed")

\* C2: whenever POST /api/trips creates (through DatabaseStorage.createTrip,
\* with no store failure) an in_progress trip for a vehicle whose status is
\* available, the request succeeds, the trip row is inserted under the next
\* trip id, and the vehicle's status afterwards is in_use.
C2_CreateTripSetsInUse ==
  [][\A body \in NewTrips :
       (/\ Get(body, "status", "") = "in_progress"
        /\ vehicles[body.vehicleId].status = "available"
        /\ PostTrips(Admin, body, 0))
       => (/\ last'.code = 201
           /\ nextId.trips \notin DOMAIN trips
           /\ trips' = Put(trips, nextId.trips, TripRow(body))
           /\ vehicles' = [vehicles EXCEPT ![body.vehicleId].status = "in_use"])]_vars

\* C2 witness: the last request created an in_progress trip and its vehicle
\* is in_use.
C2_Witness ==
  /\ last = [op |-> "POST /api/trips", code |-> 201]
  /\ nextId.trips - 1 \in DOMAIN trips
  /\ trips[nextId.trips - 1].status = "in_progress"
  /\ vehicles[trips[nextId.trips - 1].vehicleId].status = "in_use"

\* C3: a POST /api/trips that creates an in_progress trip for a vehicle
\* whose status is maintenance is answered with a conflict status (409 or
\* 422), inserts no trip row and leaves the vehicles as they were.
C3_TripOnVehicleInMaintenanceRejected ==
  [][\A body \in NewTrips :
       (/\ Get(body, "status", "") = "in_progress"
        /\ vehicles[body.vehicleId].status = "maintenance"
        /\ PostTrips(Admin, body, 0))
       => (/\ last'.code \in {409, 422}
           /\ trips' = trips
           /\ vehicles' = vehicles)]_vars

\* C4: a PUT /api/trips/:id that completes a trip (status completed, an
\* endTime, endOdometer = X >= the trip's startOdometer) whose vehicle is
\* in_use leaves the vehicle available with mileage max(prior mileage, X).
C4_CompletionSetsMaxMileage ==
  [][\A id \in 1..MaxTrips, body \in TripCompletionsAnyOdometer :
       (/\ PutTrips(Admin, id, body, 0)
        /\ id \in DOMAIN trips
        /\ Has(body, "endTime") /\ Has(body, "endOdometer")
        /\ body.endOdometer >= trips[id].startOdometer
        /\ vehicles[trips[id].vehicleId].status = "in_use")
       => vehicles'[trips[id].vehicleId] =
            [status |-> "available",
             mileage |-> Max(vehicles[trips[id].vehicleId].mileage, body.endOdometer)]]_vars

\* C5: a PUT /api/trips/:id with status completed whose endOdometer is less
\* than the trip's startOdometer is answered 400 (ValidationError) and
\* changes neither the trip rows nor the vehicles.
C5_EndBelowStartRejected ==
  [][\A id \in 1..MaxTrips, body \in TripCompletionsAnyOdometer :
       (/\ PutTrips(Admin, id, body, 0)
        /\ id \in DOMAIN trips
        /\ Has(body, "endOdometer")
        /\ body.endOdometer < trips[id].startOdometer)
       => (/\ last'.code = 400
           /\ trips' = trips
           /\ vehicles' = vehicles)]_vars

\* C6: a POST /api/bookings by an authenticated user (DatabaseStorage.
\* createBooking) for a vehicle whose status is not available is answered
\* 422, the 'Vehicle not available' conflict, and inserts no booking row,
\* whether or not the store would have accepted the insert.
C6_BookingNeedsAvailableVehicle ==
  [][last'.op = "POST /api/bookings" =>
     \A req \in Requesters \ {Anonymous}, body \in FirstSlotBookings, fail \in 0..1 :
       (/\ body.vehicleId \in DOMAIN vehicles
        /\ vehicles[body.vehicleId].status # "available"
        /\ PostBookings(req, body, fail))
       => (/\ createBooking(DB, body, fail).threw = "Vehicle not available"
           /\ last' = [op |-> "POST /api/bookings", code |-> 422]
           /\ bookings' = bookings
           /\ nextId' = nextId)]_vars

\* C6 witness: a booking request was just refused as 'not available' for a
\* vehicle that is in_use, and no booking is stored.
C6_Witness ==
  /\ last = [op |-> "POST /api/bookings", code |-> 422]
  /\ bookings = <<>>
  /\ \E v \in DOMAIN vehicles : vehicles[v].status = "in_use"

\* C7: DELETE /api/vehicles/:id of a stored vehicle: while a maintenance,
\* trip or booking row references the vehicle the request fails (400 for
\* the admin, 401 / 403 for the others) and the vehicle stays; when no row
\* references it, the admin's request deletes exactly that vehicle.
C7_DeleteVehicleBlockedByDependents ==
  [][\A req \in Requesters, id \in VehicleIds :
       (id \in DOMAIN vehicles /\ DeleteVehicles(req, id))
       => IF listMaintenanceForVehicle(DB, id) \cup listTripsForVehicle(DB, id)
               \cup listBookingsForVehicle(DB, id) # {}
            THEN /\ vehicles' = vehicles
                 /\ last'.code = (IF req = Admin THEN 400 ELSE adminOnly(req))
            ELSE req = Admin => (vehicles' = Drop(vehicles, id) /\ last'.code = 200)]_vars

\* C7 witness: the delete of a vehicle that only a booking references was
\* just refused, and the vehicle is still stored.
C7_Witness ==
  /\ last = [op |-> "DELETE /api/vehicles/:id", code |-> 400]
  /\ \E v \in DOMAIN vehicles :
       /\ listBookingsForVehicle(DB, v) # {}
       /\ listTripsForVehicle(DB, v) = {}
       /\ listMaintenanceForVehicle(DB, v) = {}

\* C8: a POST /api/maintenance for a stored vehicle (DatabaseStorage.
\* createMaintenance, no store failure) inserts the record, and sets the
\* vehicle's status to maintenance exactly when the record's initial status
\* is not completed and the vehicle's status is available; otherwise every
\* vehicle is left as it was.
C8_CreateMaintenanceSetsStatus ==
  [][\A body \in NewMaintenance :
       (body.vehicleId \in DOMAIN vehicles /\ PostMaintenance(Admin, body, 0))
       => (/\ last'.code = 201
           /\ maintenance' = Put(maintenance, nextId.maintenance, MaintenanceRow(body))
           /\ vehicles' =
                IF /\ MaintenanceRow(body).status # "completed"
                   /\ vehicles[body.vehicleId].status = "available"
                  THEN [vehicles EXCEPT ![body.vehicleId].status = "maintenance"]
                ELSE vehicles)]_vars

\* C8 witness: the last request created a maintenance record that is not
\* completed, and its vehicle is in maintenance.
C8_Witness ==
  /\ last = [op |-> "POST /api/maintenance", code |-> 201]
  /\ nextId.maintenance - 1 \in DOMAIN maintenance
  /\ maintenance[nextId.maintenance - 1].status = "pending"
  /\ vehicles[maintenance[nextId.maintenance - 1].vehicleId].status = "maintenance"

\* C9: a PUT /api/maintenance/:id with status completed (DatabaseStorage.
\* updateMaintenance) on a record whose vehicle has status maintenance
\* sets that vehicle's status to available, and no maintenance update ever
\* changes a vehicle's mileage, whatever odometer value it carries.
C9_CompleteMaintenanceKeepsMileage ==
  [][\A id \in 1..MaxMaintenance, body \in MaintenanceUpdatesWithOdometer :
       (id \in DOMAIN maintenance /\ PutMaintenance(Admin, id, body, 0))
       => (/\ \A v \in DOMAIN vehicles : vehicles'[v].mileage = vehicles[v].mileage
           /\ (body.status = "completed"
               /\ vehicles[maintenance[id].vehicleId].status = "maintenance")
              => (/\ last'.code = 200
                  /\ vehicles' =
                       [vehicles EXCEPT ![maintenance[id].vehicleId].status = "available"]))]_vars

\* C9 witness: a maintenance update just succeeded, the record is completed
\* and carries an odometer value above the mileage of its vehicle, which is
\* available.
C9_Witness ==
  /\ last = [op |-> "PUT /api/maintenance/:id", code |-> 200]
  /\ \E m \in DOMAIN maintenance :
       /\ maintenance[m].status = "completed"
       /\ maintenance[m].odometer > vehicles[maintenance[m].vehicleId].mileage
       /\ vehicles[maintenance[m].vehicleId].status = "available"

\* C10: when a store write fails inside createTrip, updateTrip,
\* createMaintenance or updateMaintenance (the first write or the second),
\* the request is answered 500 and the stored trips, maintenance records
\* and vehicles are those from before the call.
C10_FailedWriteCommitsNothing ==
  [][/\ last'.op = "POST /api/trips" =>
          \A body \in StartedTrips, fail \in 0..2 :
            (createTripTx(DB, body, fail).threw # "" /\ PostTrips(Admin, body, fail))
            => (last'.code = 500 /\ UNCHANGED <<trips, maintenance, vehicles>>)
     /\ last'.op = "PUT /api/trips/:id" =>
          \A id \in DOMAIN trips, body \in TripCompletions, fail \in 0..2 :
            (updateTripTx(DB, id, body, fail).threw # "" /\ PutTrips(Admin, id, body, fail))
            => (last'.code = 500 /\ UNCHANGED <<trips, maintenance, vehicles>>)
     /\ last'.op = "POST /api/maintenance" =>
          \A body \in PendingMaintenance, fail \in 0..2 :
            (/\ createMaintenanceTx(DB, body, fail).threw # ""
             /\ PostMaintenance(Admin, body, fail))
            => (last'.code = 500 /\ UNCHANGED <<trips, maintenance, vehicles>>)
     /\ last'.op = "PUT /api/maintenance/:id" =>
          \A id \in DOMAIN maintenance,
             body \in MaintenanceCompletions, fail \in 0..2 :
            (/\ updateMaintenanceTx(DB, id, body, fail).threw # ""
             /\ PutMaintenance(Admin, id, body, fail))
            => (last'.code = 500 /\ UNCHANGED <<trips, maintenance, vehicles>>)]_vars

\* C10 witness: the completion of a trip was just answered 500, and the trip
\* is still in progress on a vehicle that is still in_use.
C10_Witness ==
  /\ last = [op |-> "PUT /api/trips/:id", code |-> 500]
  /\ \E t \in DOMAIN trips :
       /\ trips[t].status = "in_progress"
       /\ trips[t].endTime = Null
       /\ vehicles[trips[t].vehicleId].status = "in_use"

\* C11: when two createTrip calls with status in_progress for the same
\* vehicle run concurrently, it never happens that both read the vehicle's
\* status as available and both write in_use.
C11_OneStartTripWins ==
  \A c, o \in Clients :
    (/\ c # o
     /\ calls[c].op = "createTrip" /\ calls[o].op = "createTrip"
     /\ calls[c].vehicleId = calls[o].vehicleId)
    => ~(/\ calls[c].seen = "available" /\ calls[c].wrote
         /\ calls[o].seen = "available" /\ calls[o].wrote)

\* C12: no booking row is ever inserted at a moment when the stored status
\* of its vehicle is not available, also when createBooking runs while a
\* createTrip or createMaintenance for the same vehicle does.
C12_BookingInsertedOnlyWhenAvailable ==
  [][\A b \in DOMAIN bookings' \ DOMAIN bookings :
       vehicles[bookings'[b].vehicleId].status = "available"]_vars

\* C13: across trip, maintenance and booking operations, with no direct
\* update of a vehicle, no step lowers the mileage of a vehicle.
C13_MileageNeverDecreases ==
  [][\A v \in DOMAIN vehicles \cap DOMAIN vehicles' :
       vehicles'[v].mileage >= vehicles[v].mileage]_vars

\* C14: in every state reached through trip and maintenance operations,
\* with no direct edit of a vehicle, every trip in progress belongs to a
\* vehicle whose status is in_use.
C14_TripInProgressMeansInUse ==
  \A t \in DOMAIN trips :
    trips[t].status = "in_progress" => vehicles[trips[t].vehicleId].status = "in_use"

\* C15: in every state reached through trip and maintenance operations,
\* with no direct edit of a vehicle, a vehicle that has a maintenance record
\* that is not completed, and no trip in progress, has status maintenance.
C15_OpenMaintenanceMeansMaintenance ==
  \A v \in DOMAIN vehicles :
    (/\ \E m \in DOMAIN maintenance :
          maintenance[m].vehicleId = v /\ maintenance[m].status # "completed"
     /\ ~\E t \in DOMAIN trips :
          trips[t].vehicleId = v /\ trips[t].status = "in_progress")
    => vehicles[v].status = "maintenance"

\* C16: a POST /api/bookings whose endTime is earlier than its startTime
\* is answered 400 (ValidationError) and inserts no booking row.
C16_BookingEndBeforeStartRejected ==
  [][\A body \in TimedBookings :
       (body.endTime < body.startTime /\ PostBookings(Admin, body, 0))
       => (last'.code = 400 /\ bookings' = bookings)]_vars

\* C17: over trip operations the status of a stored trip changes only
\* along planned -> in_progress, in_progress -> completed, planned ->
\* cancelled and in_progress -> cancelled.
C17_TripStatusTransitions ==
  [][\A t \in DOMAIN trips \cap DOMAIN trips' :
       trips'[t].status # trips[t].status
       => <<trips[t].status, trips'[t].status>> \in
            {<<"planned", "in_progress">>, <<"in_progress", "completed">>,
             <<"planned", "cancelled">>, <<"in_progress", "cancelled">>}]_vars

\* C18: DELETE /api/trips/:id of a trip in progress, and DELETE
\* /api/maintenance/:id of a maintenance record in progress, are rejected
\* (neither 200 nor 204) and the record stays stored.
C18_DeleteInProgressRejected ==
  [][/\ \A id \in DOMAIN trips :
          (trips[id].status = "in_progress" /\ DeleteTrips(Admin, id))
          => (last'.code \notin {200, 204} /\ trips' = trips)
     /\ \A id \in DOMAIN maintenance :
          (maintenance[id].status = "in_progress" /\ DeleteMaintenance(Admin, id))
          => (last'.code \notin {200, 204} /\ maintenance' = maintenance)]_vars

\* C19: a request served by createBooking, updateBooking or deleteBooking
\* (POST, PUT, DELETE /api/bookings), whether it succeeds or fails, leaves
\* the status and the mileage of every vehicle as they were.
C19_BookingsLeaveVehiclesAlone ==
  [][/\ last'.op = "POST /api/bookings" =>
          \A req \in Requesters, body \in FirstSlotBookings \cup {Malformed}, fail \in 0..1 :
            vehicles' = vehicles \/ ~PostBookings(req, body, fail)
     /\ last'.op = "PUT /api/bookings/:id" =>
          \A req \in Requesters, id \in 1..MaxBookings, body \in BookingPatches,
             fail \in 0..1 :
            vehicles' = vehicles \/ ~PutBookings(req, id, body, fail)
     /\ last'.op = "DELETE /api/bookings/:id" =>
          \A req \in Requesters, id \in 1..MaxBookings :
            vehicles' = vehicles \/ ~DeleteBookings(req, id)]_vars

\* C19 witness: a booking was just created, and its vehicle is still
\* available.
C19_Witness ==
  /\ last = [op |-> "POST /api/bookings", code |-> 201]
  /\ nextId.bookings - 1 \in DOMAIN bookings
  /\ vehicles[bookings[nextId.bookings - 1].vehicleId] =
       [status |-> "available", mileage |-> 0]

\* C20: the list GET /api/maintenance/upcoming answers with
\* (listUpcomingMaintenance) holds exactly the stored maintenance records
\* whose status is not completed, whatever their date, each once, by
\* ascending date.
C20_UpcomingListsEveryOpenRecord ==
  (last.op = "GET /api/maintenance/upcoming" /\ last.code = 200) =>
    /\ {last.body[i] : i \in DOMAIN last.body} =
         {m \in DOMAIN maintenance : maintenance[m].status # "completed"}
    /\ \A i, j \in DOMAIN last.body :
         i < j => /\ last.body[i] # last.body[j]
                  /\ maintenance[last.body[i]].date <= maintenance[last.body[j]].date

\* C21: over maintenance operations the status of a stored maintenance
\* record changes only along pending -> in_progress and in_progress ->
\* completed.
C21_MaintenanceStatusTransitions ==
  [][\A m \in DOMAIN maintenance \cap DOMAIN maintenance' :
       maintenance'[m].status # maintenance[m].status
       => <<maintenance[m].status, maintenance'[m].status>> \in
            {<<"pending", "in_progress">>, <<"in_progress", "completed">>}]_vars

\* C22: in every reachable state, updateBooking called on any stored
\* booking, whatever its current status, with any value of the status enum
\* does not throw and stores that status (so PUT /api/bookings/:id answers
\* 200): no status transition is rejected.
C22_BookingStatusUnguarded ==
  \A id \in DOMAIN bookings, body \in BookingPatches :
    LET r == updateBooking(DB, id, body, 0)
    IN /\ r.threw = "" /\ r.found
       /\ r.db.bookings = [bookings EXCEPT ![id].status = body.status]

\* C22 witness: a booking (created pending) was just updated and is now
\* completed.
C22_Witness ==
  /\ last = [op |-> "PUT /api/bookings/:id", code |-> 200]
  /\ \E b \in DOMAIN bookings : bookings[b].status = "completed"

\* C23: a PUT /api/trips/:id (updateTrip) whose data is not a completion
\* (status completed together with an endTime) leaves the status and the
\* mileage of every vehicle unchanged, also when it moves the trip to
\* in_progress or to cancelled.
C23_PlainTripUpdateLeavesVehicles ==
  [][last'.op = "PUT /api/trips/:id" =>
       \A id \in 1..MaxTrips, body \in TripUpdates :
         ~(body.status = "completed" /\ Truthy(body, "endTime"))
         => (vehicles' = vehicles \/ ~PutTrips(Admin, id, body, 0))]_vars

\* C23 witness: a trip was just updated to cancelled and its vehicle is
\* still in_use.
C23_Witness ==
  /\ last = [op |-> "PUT /api/trips/:id", code |-> 200]
  /\ \E t \in DOMAIN trips :
       trips[t].status = "cancelled" /\ vehicles[trips[t].vehicleId].status = "in_use"

\* C24: a POST /api/vehicles by a requester who is not an authenticated
\* admin or moderator, and a PUT /api/trips/:id or PUT /api/bookings/:id by
\* a requester who is neither authenticated as the trip's driver / the
\* booking's user nor as admin or moderator, leave every stored record
\* unchanged.
C24_UnauthorizedChangesNothing ==
  [][/\ last'.op = "POST /api/vehicles" =>
          \A req \in Requesters, body \in VehicleBodies, fail \in 0..1 :
            (req = Anonymous \/ req.role \notin {"admin", "moderator"})
            => (UNCHANGED <<users, vehicles, trips, maintenance, bookings>>
                \/ ~PostVehicles(req, body, fail))
     /\ last'.op = "PUT /api/trips/:id" =>
          \A req \in Requesters, id \in DOMAIN trips,
             body \in TripCancellations :
            (req = Anonymous \/ (/\ req.id # trips[id].driverId
                                 /\ req.role \notin {"admin", "moderator"}))
            => (UNCHANGED <<users, vehicles, trips, maintenance, bookings>>
                \/ ~PutTrips(req, id, body, 0))
     /\ last'.op = "PUT /api/bookings/:id" =>
          \A req \in Requesters, id \in DOMAIN bookings :
            (req = Anonymous \/ (/\ req.id # bookings[id].userId
                                 /\ req.role \notin {"admin", "moderator"}))
            => (UNCHANGED <<users, vehicles, trips, maintenance, bookings>>
                \/ ~PutBookings(req, id, [status |-> "approved"], 0))]_vars

\* C24 witness: a request without a session to register a vehicle was just
\* answered 401, and no vehicle has been registered.
C24_Witness ==
  /\ last = [op |-> "POST /api/vehicles", code |-> 401]
  /\ nextId.vehicles = NumVehicles + 1
  /\ DOMAIN vehicles = 1..NumVehicles

\* C25: in every reachable state every stored trip, maintenance record and
\* booking references a stored vehicle, also when a DELETE
\* /api/vehicles/:id runs while a createTrip, createMaintenance or
\* createBooking for that vehicle does and the row is inserted after the
\* route's three dependent checks and before its deleteVehicle.
C25_DependentsReferenceStoredVehicle ==
  /\ \A t \in DOMAIN trips : trips[t].vehicleId \in DOMAIN vehicles
  /\ \A m \in DOMAIN maintenance : maintenance[m].vehicleId \in DOMAIN vehicles
  /\ \A b \in DOMAIN bookings : bookings[b].vehicleId \in DOMAIN vehicles

\* C25 witness: a delete that had passed its three checks was just answered
\* 500 by deleteVehicle, because of a booking inserted in between, and the
\* vehicle is still stored.
C25_Witness ==
  /\ last = [op |-> "DELETE /api/vehicles/:id", code |-> 500]
  /\ \E c \in Clients, b \in DOMAIN bookings :
       /\ calls[c].op = "deleteVehicle" /\ calls[c].pc = "done"
       /\ bookings[b].vehicleId = calls[c].vehicleId
       /\ calls[c].vehicleId \in DOMAIN vehicles
       /\ trips = <<>> /\ maintenance = <<>>

\* C26: in every state reached through trip and maintenance operations,
\* with no direct edit of a vehicle, a vehicle whose status is in_use has at
\* least one trip whose status is in_progress.
C26_InUseMeansTripInProgress ==
  \A v \in DOMAIN vehicles :
    vehicles[v].status = "in_use"
    => \E t \in DOMAIN trips : trips[t].vehicleId = v /\ trips[t].status = "in_progress"

\* C27: a request other than PUT /api/vehicles/:id (a trip, maintenance or
\* booking operation) leaves every vehicle whose status is out_of_service
\* with that status and with its mileage.
C27_OutOfServiceStays ==
  [][last'.op # "PUT /api/vehicles/:id" =>
       \A v \in DOMAIN vehicles :
         vehicles[v].status = "out_of_service"
         => (v \in DOMAIN vehicles' /\ vehicles'[v] = vehicles[v])]_vars

\* C27 witness: a trip was just completed with an endOdometer above the
\* mileage of its vehicle, which is still out_of_service.
C27_Witness ==
  /\ last = [op |-> "PUT /api/trips/:id", code |-> 200]
  /\ \E t \in DOMAIN trips :
       /\ trips[t].status = "completed" /\ trips[t].endTime # Null
       /\ trips[t].endOdometer > vehicles[trips[t].vehicleId].mileage
       /\ vehicles[trips[t].vehicleId].status = "out_of_service"

\* C28: from every state both stores have reached by the same calls, each
\* further createTrip, updateTrip, createMaintenance, updateMaintenance or
\* createBooking call is accepted by MemStorage exactly when DatabaseStorage
\* accepts it, and leaves the same status and mileage on every vehicle.
C28_StoragesAgree ==
  /\ \A data \in NewTrips :
       LET a == createTrip(DB, data, 0)
           m == MemStorage_createTrip(DB, data)
       IN (a.threw = "") = (m.threw = "") /\ a.db.vehicles = m.db.vehicles
  /\ \A id \in 1..MaxTrips, data \in TripUpdates :
       LET a == updateTrip(DB, id, data, 0)
           m == MemStorage_updateTrip(DB, id, data)
       IN /\ (a.threw = "") = (m.threw = "") /\ a.found = m.found
          /\ a.db.vehicles = m.db.vehicles
  /\ \A data \in NewMaintenance :
       LET a == createMaintenance(DB, data, 0)
           m == MemStorage_createMaintenance(DB, data)
       IN (a.threw = "") = (m.threw = "") /\ a.db.vehicles = m.db.vehicles
  /\ \A id \in 1..MaxMaintenance, data \in MaintenanceUpdates :
       LET a == updateMaintenance(DB, id, data, 0)
           m == MemStorage_updateMaintenance(DB, id, data)
       IN /\ (a.threw = "") = (m.threw = "") /\ a.found = m.found
          /\ a.db.vehicles = m.db.vehicles
  /\ \A data \in BookingBodies :
       LET a == createBooking(DB, data, 0)
           m == MemStorage_createBooking(DB, data)
       IN (a.threw = "") = (m.threw = "") /\ a.db.vehicles = m.db.vehicles

\* C29: a DELETE /api/users/:id either leaves the users as they were or
\* removes exactly the user it names, who is neither the requester nor an
\* admin; and over user creations and deletions, from a state with an admin
\* user every step leads to a state with an admin user.
C29_AdminsAndSelfNeverDeleted ==
  [][/\ last'.op = "DELETE /api/users/:id" =>
          \A req \in Requesters, id \in UserIds :
            (\/ users' = users
             \/ (/\ id # req.id /\ id \in DOMAIN users /\ users[id].role # "admin"
                 /\ users' = Drop(users, id)))
            \/ ~DeleteUsers(req, id)
     /\ (\E u \in DOMAIN users : users[u].role = "admin")
        => (\E u \in DOMAIN users' : users'[u].role = "admin")]_vars

\* C29 witness: an admin's request to delete another admin was just answered
\* 403, after the moderator was deleted: only admins are stored, two at
\* least.
C29_Witness ==
  /\ last = [op |-> "DELETE /api/users/:id", code |-> 403]
  /\ 2 \notin DOMAIN users
  /\ Cardinality(DOMAIN users) >= 2
  /\ \A u \in DOMAIN users : users[u].role = "admin"

\* C30: a DatabaseStorage data operation takes its step (reads or writes
\* the tables, or rejects) only when initializeDatabase is no longer
\* pending; it accesses the tables only with initialized set, and when
\* initializeDatabase has failed it rejects with that failure and leaves
\* every table as it was.
C30_NoAccessBeforeInitialized ==
  [][last'.op \in DataOperations =>
       /\ initializationPromise.state # "pending"
       /\ initializationPromise.state = "fulfilled" => initialized
       /\ initializationPromise.state = "rejected"
          => /\ last'.code = "InitializationError"
             /\ UNCHANGED <<users, vehicles, trips, maintenance, bookings, nextId>>]_vars

\* C30 witness: initializeDatabase failed at the insert of the admin user,
\* and a createBooking called afterwards was rejected with no row stored.
C30_Witness ==
  /\ last = [op |-> "createBooking", code |-> "InitializationError"]
  /\ initializationPromise.state = "rejected" /\ ~initialized
  /\ users = <<>> /\ bookings = <<>>
====
